---- MODULE Spec2Model ----
(***************************************************************************)
(* dggarchiver-notifier: the supervised polling loop (LaunchLoop), the     *)
(* three platform adapters found in the sources (YouTube API, YouTube      *)
(* scraper, Kick), the shared State (SentVODs, CurrentStreams, SearchETag) *)
(* and its durable snapshot.                                               *)
(*                                                                         *)
(* Every adapter's CheckLivestream is split at its accesses to the shared  *)
(* State: the platform workers are goroutines that run without any lock,   *)
(* so another worker may act between any two of them.                      *)
(***************************************************************************)
EXTENDS Integers, Sequences, FiniteSets, TLC

(* ------------------------------ bounds --------------------------------- *)
\* broadcasts each platform starts during one run
MaxStreams == 1
\* consecutive failed Checks of one worker, in Spec
MaxFails == 1
\* consecutive failed Checks of the worker, in SpecYouTube
MaxRun == 8
\* cfg.Platforms.YouTube.RefreshTime, minutes between two polls
RefreshTime == 1

(* ---------------------------- environment ------------------------------ *)
Platforms == {"YouTube", "Kick"}

\* platform video ids: YouTube ids are strings, Kick ids are integers
YTIds == <<"yA", "yB", "yC">>
KickIds == <<12345, 12346, 12347>>

\* fmt.Sprintf("%d", id) of a Kick livestream id
Itoa(n) ==
  CASE n = 12345 -> "12345"
    [] n = 12346 -> "12346"
    [] n = 12347 -> "12347"

\* fmt.Sprintf("youtube:%s", id), fmt.Sprintf("kick:%s", id)
KeyS(prefix, id) == <<prefix, id>>
\* fmt.Sprintf("kick:%d", id)
KeyD(prefix, n) == <<prefix, Itoa(n)>>


\* dggarchivermodel.VOD, reduced to the fields the core reads
VOD(platform, id) == [Platform |-> platform, VID |-> id]
\* dggarchivermodel.VOD{}
EmptyVOD == VOD("", "")

\* the entity tag the search API answers with: a function of the result
NoETag == <<>>
ETagOf(n) == <<n>>

VARIABLES
  method,          \* cfg.Platforms.YouTube.Method: "api" or "scraper"
  live,            \* per platform: number of the broadcast now live, 0 = none
  started,         \* per platform: broadcasts started so far
  simulcast,       \* the broadcasts now live began on both platforms at once
  SentVODs,        \* state.SentVODs
  CurrentStreams,  \* state.CurrentStreams
  SearchETag,      \* state.SearchETag
  disk,            \* the durable state file
  crashed,         \* the process has ended (panic or log.Fatalf)
  pc,              \* per worker: position in LaunchLoop / CheckLivestream
  timeout,         \* LaunchLoop's timeout
  slept,           \* seconds of the time.Sleep that followed the last Check
  fails,           \* ghost: consecutive failed Checks
  prevFail,        \* ghost: key whose Publish failed in the last Check
  prevDenied,      \* ghost: key the last Check found and arbitration denied
  vid,             \* the id the running Check found ("" or 0: none)
  old,             \* the slice value append read
  ret,             \* what the last Check returned: "nil" or "err"
  branch,          \* the branch the last Check took, "run" while one runs
  qerr,            \* ghost: how the Check's platform query failed, or "none"
  calls,           \* ghost: what the Check has called
  published        \* ghost: keys of the Job Records the bus has accepted

envVars == <<method, live, started, simulcast>>
stateVars == <<SentVODs, CurrentStreams, SearchETag, disk>>
loopVars == <<timeout, slept, fails, prevFail, prevDenied>>
checkVars == <<vid, old, ret, branch, qerr, calls>>
vars == <<envVars, stateVars, crashed, pc, loopVars, checkVars, published>>

Min(a, b) == IF a < b THEN a ELSE b

\* slices.Contains(state.SentVODs, key)
Contains(s, key) == \E i \in 1..Len(s) : s[i] = key

\* the id the platform reports for its live broadcast
LiveId(p) ==
  IF live[p] = 0 THEN ""
  ELSE IF p = "YouTube" THEN YTIds[live[p]] ELSE Itoa(KickIds[live[p]])

\* the ledger key of the video the Check of worker w found
VidKey(w) ==
  IF w = "YouTube" THEN KeyS("youtube", vid[w]) ELSE KeyS("kick", Itoa(vid[w]))

\* nothing found: "" for a YouTube id, 0 for a Kick livestream id
NoVid == [w \in Platforms |-> IF w = "YouTube" THEN "" ELSE 0]

\* publish: Publish was called; ok: it returned no error
NoCalls == [publish |-> FALSE, ok |-> FALSE, notify |-> 0, probe |-> FALSE]

Init ==
  /\ method \in {"api", "scraper"}
  /\ live = [p \in Platforms |-> 0]
  /\ started = [p \in Platforms |-> 0]
  /\ simulcast = FALSE
  /\ disk = [SentVODs |-> <<>>,
             CurrentStreams |-> [p \in Platforms |-> EmptyVOD],
             SearchETag |-> NoETag]
  /\ crashed = FALSE
  /\ published = {}
  /\ SentVODs = <<>>
  /\ CurrentStreams = [p \in Platforms |-> EmptyVOD]
  /\ SearchETag = NoETag
  /\ pc = [w \in Platforms |-> "loop"]
  /\ timeout = [w \in Platforms |-> 0]
  /\ slept = [w \in Platforms |-> 0]
  /\ fails = [w \in Platforms |-> 0]
  /\ prevFail = [w \in Platforms |-> <<>>]
  /\ prevDenied = [w \in Platforms |-> <<>>]
  /\ vid = NoVid
  /\ old = [w \in Platforms |-> <<>>]
  /\ ret = [w \in Platforms |-> "nil"]
  /\ branch = [w \in Platforms |-> "none"]
  /\ qerr = [w \in Platforms |-> "none"]
  /\ calls = [w \in Platforms |-> NoCalls]

\* the process ends (a panic, log.Fatalf): every goroutine stops and the
\* memory is gone; the durable file and the world stay
Exit ==
  /\ crashed' = TRUE
  /\ SentVODs' = <<>>
  /\ CurrentStreams' = [p \in Platforms |-> EmptyVOD]
  /\ SearchETag' = NoETag
  /\ pc' = [w \in Platforms |-> "loop"]
  /\ timeout' = [w \in Platforms |-> 0]
  /\ slept' = [w \in Platforms |-> 0]
  /\ fails' = [w \in Platforms |-> 0]
  /\ prevFail' = [w \in Platforms |-> <<>>]
  /\ prevDenied' = [w \in Platforms |-> <<>>]
  /\ vid' = NoVid
  /\ old' = [w \in Platforms |-> <<>>]
  /\ ret' = [w \in Platforms |-> "nil"]
  /\ branch' = [w \in Platforms |-> "none"]
  /\ qerr' = [w \in Platforms |-> "none"]
  /\ calls' = [w \in Platforms |-> NoCalls]
  /\ UNCHANGED <<envVars, disk, published>>

(* ------------------------- the world outside --------------------------- *)
\* a broadcast starts on platform p alone
GoLive(p) ==
  /\ ~crashed
  /\ live[p] = 0
  /\ started[p] < MaxStreams
  /\ started' = [started EXCEPT ![p] = @ + 1]
  /\ live' = [live EXCEPT ![p] = started[p] + 1]
  /\ simulcast' = FALSE
  /\ UNCHANGED <<method, stateVars, crashed, pc, loopVars, checkVars, published>>

\* one broadcast starts on every platform at the same instant
GoLiveSimulcast ==
  /\ ~crashed
  /\ \A p \in Platforms : live[p] = 0 /\ started[p] < MaxStreams
  /\ started' = [p \in Platforms |-> started[p] + 1]
  /\ live' = [p \in Platforms |-> started[p] + 1]
  /\ simulcast' = TRUE
  /\ UNCHANGED <<method, stateVars, crashed, pc, loopVars, checkVars, published>>

\* the broadcast on platform p ends
EndLive(p) ==
  /\ ~crashed
  /\ live[p] # 0
  /\ live' = [live EXCEPT ![p] = 0]
  /\ simulcast' = FALSE
  /\ UNCHANGED <<method, started, stateVars, crashed, pc, loopVars, checkVars,
                 published>>

(* ------------------------------ state ---------------------------------- *)
\* state.Dump(): the whole State, written over the durable file
Dump(sent, streams, etag) ==
  [SentVODs |-> sent, CurrentStreams |-> streams, SearchETag |-> etag]

\* priority rank of each platform, lower first
Priority == [p \in Platforms |-> IF p = "YouTube" THEN 1 ELSE 2]

\* state.CheckPriority(platform, cfg)
CheckPriority(p, streams) ==
  \A q \in Platforms : Priority[q] < Priority[p] => streams[q] = EmptyVOD

(* ---------------------------- LaunchLoop ------------------------------- *)
\* sleepTime: time.Second * 60 * RefreshTime, in seconds
SleepTime == 60 * RefreshTime

\* the switch on timeout after a failed Check
BackoffNext(t) ==
  CASE t = 0 -> 1
    [] t >= 1 /\ t <= 32 -> t * 2
    [] OTHER -> t

\* err != nil: raise the timeout, continue, and at the top of the loop
\* sleep timeout seconds
LoopOnError(w) ==
  /\ timeout' = [timeout EXCEPT ![w] = BackoffNext(@)]
  /\ slept' = [slept EXCEPT ![w] = BackoffNext(timeout[w])]
  /\ fails' = [fails EXCEPT ![w] = @ + 1]
  /\ prevFail' = [prevFail EXCEPT ![w] = <<>>]
  /\ prevDenied' = [prevDenied EXCEPT ![w] = <<>>]

\* LoopOnSuccess without its "timeout = 0"
LoopOnSuccessKeepsTimeout(w, b) ==
  /\ timeout' = timeout
  /\ slept' = [slept EXCEPT ![w] = SleepTime]
  /\ fails' = [fails EXCEPT ![w] = 0]
  /\ prevFail' = [prevFail EXCEPT ![w] = IF b = "pubfail" THEN VidKey(w) ELSE <<>>]
  /\ prevDenied' = [prevDenied EXCEPT ![w] = IF b = "denied" THEN VidKey(w) ELSE <<>>]

\* err == nil: timeout = 0, sleep the poll interval; the top of the loop
\* then sleeps no more
LoopOnSuccess(w, b) ==
  /\ timeout' = [timeout EXCEPT ![w] = 0]
  /\ slept' = [slept EXCEPT ![w] = SleepTime]
  /\ fails' = [fails EXCEPT ![w] = 0]
  /\ prevFail' = [prevFail EXCEPT ![w] = IF b = "pubfail" THEN VidKey(w) ELSE <<>>]
  /\ prevDenied' = [prevDenied EXCEPT ![w] = IF b = "denied" THEN VidKey(w) ELSE <<>>]

\* CheckLivestream returns e to the loop, having taken branch b
Return(w, e, b) ==
  /\ pc' = [pc EXCEPT ![w] = "loop"]
  /\ ret' = [ret EXCEPT ![w] = e]
  /\ branch' = [branch EXCEPT ![w] = b]
  /\ IF e = "err" THEN LoopOnError(w) ELSE LoopOnSuccess(w, b)

\* the worker w runs adapter m and stands at position at
At(w, m, at) ==
  /\ ~crashed
  /\ pc[w] = at
  /\ IF w = "YouTube" THEN method = m ELSE m = "kick"

Goto(w, at) == pc' = [pc EXCEPT ![w] = at]

\* imp.CheckLivestream() is called: nothing found, nothing called yet
Enter(w) ==
  /\ old' = [old EXCEPT ![w] = <<>>]
  /\ calls' = [calls EXCEPT ![w] = NoCalls]

\* p.cfg.Notifications.Sender.Send: best effort, its errors are only logged
Notify(w) == calls' = [calls EXCEPT ![w].notify = @ + 1]

\* util.HealthCheck(url) with a url configured
HealthCheck(w) == calls' = [calls EXCEPT ![w].probe = TRUE]

\* NatsConnection.Publish of the Job Record with this key returns ok
Publish(w, key, ok) ==
  /\ published' = IF ok THEN published \cup {key} ELSE published
  /\ calls' = [calls EXCEPT ![w].publish = TRUE, ![w].ok = ok]

(* ------------------- YouTube API: API.CheckLivestream ------------------ *)
\* getLivestreamID(p.state.SearchETag), then SearchETag = etagEnd and Dump
APIQuery(w, cap) ==
  /\ At(w, "api", "loop")
  /\ Enter(w)
  /\ \/ \* Search.List fails: the error is returned
        /\ fails[w] < cap
        /\ qerr' = [qerr EXCEPT ![w] = "error"]
        /\ vid' = [vid EXCEPT ![w] = ""]
        /\ Return(w, "err", "queryerr")
        /\ UNCHANGED stateVars
     \/ \* 304 Not Modified: identical etag, skipping
        /\ SearchETag = ETagOf(live[w])
        /\ qerr' = [qerr EXCEPT ![w] = "none"]
        /\ vid' = [vid EXCEPT ![w] = ""]
        /\ Return(w, "nil", "notmodified")
        /\ UNCHANGED stateVars
     \/ \* a fresh result; Videos.List of the found item may fail, which
        \* getLivestreamID swallows, handing back no video and no error
        /\ \E infoFails \in BOOLEAN :
             /\ vid' = [vid EXCEPT ![w] =
                          IF infoFails \/ live[w] = 0 THEN "" ELSE LiveId(w)]
             /\ qerr' = [qerr EXCEPT ![w] =
                          IF infoFails /\ live[w] # 0 THEN "info" ELSE "none"]
             /\ Goto(w, IF infoFails \/ live[w] = 0 THEN "clear" ELSE "ledger")
        /\ SearchETag' = ETagOf(live[w])
        /\ disk' = Dump(SentVODs, CurrentStreams, SearchETag')
        /\ ret' = [ret EXCEPT ![w] = "run"]
        /\ branch' = [branch EXCEPT ![w] = "run"]
        /\ UNCHANGED <<SentVODs, CurrentStreams, loopVars>>
  /\ UNCHANGED <<envVars, crashed, published>>

\* !slices.Contains(p.state.SentVODs, "youtube:" + id); else "already sent"
APILedger(w) ==
  /\ At(w, "api", "ledger")
  /\ IF Contains(SentVODs, KeyS("youtube", vid[w]))
       THEN /\ HealthCheck(w)
            /\ Return(w, "nil", "sent")
       ELSE /\ Goto(w, "prio")
            /\ UNCHANGED <<loopVars, ret, branch, calls>>
  /\ UNCHANGED <<envVars, stateVars, crashed, vid, old, qerr, published>>

\* p.state.CheckPriority("YouTube", p.cfg); else "streaming on a different
\* platform"
APIPriority(w) ==
  /\ At(w, "api", "prio")
  /\ IF CheckPriority(w, CurrentStreams)
       THEN /\ Goto(w, "setreg")
            /\ UNCHANGED <<loopVars, ret, branch, calls>>
       ELSE /\ HealthCheck(w)
            /\ Return(w, "nil", "denied")
  /\ UNCHANGED <<envVars, stateVars, crashed, vid, old, qerr, published>>

\* the "receive" notification, then p.state.CurrentStreams.YouTube = *vod
APISetCurrent(w) ==
  /\ At(w, "api", "setreg")
  /\ Notify(w)
  /\ CurrentStreams' = [CurrentStreams EXCEPT ![w] = VOD("youtube", vid[w])]
  /\ Goto(w, "publish")
  /\ UNCHANGED <<envVars, SentVODs, SearchETag, disk, crashed, loopVars, vid,
                 old, ret, branch, qerr, published>>

\* json.Marshal(vod), then NatsConnection.Publish
APIPublish(w) ==
  /\ At(w, "api", "publish")
  /\ \/ \* unable to marshal vod
        /\ Return(w, "nil", "marshalfail")
        /\ UNCHANGED <<calls, published>>
     \/ \* unable to publish message
        /\ Publish(w, KeyS("youtube", vid[w]), FALSE)
        /\ Return(w, "nil", "pubfail")
     \/ /\ Publish(w, KeyS("youtube", vid[w]), TRUE)
        /\ Goto(w, "append")
        /\ UNCHANGED <<loopVars, ret, branch>>
  /\ UNCHANGED <<envVars, stateVars, crashed, vid, old, qerr>>

\* the "send" notification, then append reads p.state.SentVODs
APIAppendRead(w) ==
  /\ At(w, "api", "append")
  /\ Notify(w)
  /\ old' = [old EXCEPT ![w] = SentVODs]
  /\ Goto(w, "appendw")
  /\ UNCHANGED <<envVars, stateVars, crashed, loopVars, vid, ret, branch, qerr,
                 published>>

\* p.state.SentVODs = append(..., "youtube:" + vod.VID)
APIAppendWrite(w) ==
  /\ At(w, "api", "appendw")
  /\ SentVODs' = Append(old[w], KeyS("youtube", vid[w]))
  /\ Goto(w, "dump")
  /\ UNCHANGED <<envVars, CurrentStreams, SearchETag, disk, crashed, loopVars,
                 checkVars, published>>

\* p.state.Dump(), util.HealthCheck, return nil
APIDump(w) ==
  /\ At(w, "api", "dump")
  /\ disk' = Dump(SentVODs, CurrentStreams, SearchETag)
  /\ HealthCheck(w)
  /\ Return(w, "nil", "dispatched")
  /\ UNCHANGED <<envVars, SentVODs, CurrentStreams, SearchETag, crashed, vid,
                 old, qerr, published>>

\* not live: p.state.CurrentStreams.YouTube = dggarchivermodel.VOD{},
\* util.HealthCheck, return nil
APIClear(w) ==
  /\ At(w, "api", "clear")
  /\ CurrentStreams' = [CurrentStreams EXCEPT ![w] = EmptyVOD]
  /\ HealthCheck(w)
  /\ Return(w, "nil", "notlive")
  /\ UNCHANGED <<envVars, SentVODs, SearchETag, disk, crashed, vid, old, qerr,
                 published>>

APICheckLivestream(w, cap) ==
  \/ APIQuery(w, cap)
  \/ APILedger(w)
  \/ APIPriority(w)
  \/ APISetCurrent(w)
  \/ APIPublish(w)
  \/ APIAppendRead(w)
  \/ APIAppendWrite(w)
  \/ APIDump(w)
  \/ APIClear(w)

(* ---------------- YouTube scraper: Scraper.CheckLivestream -------------- *)
\* p.scrape(scrapeTimeout): "" when Visit fails, when the wait times out,
\* and when the page shows no running stream
ScrQuery(w) ==
  /\ At(w, "scraper", "loop")
  /\ Enter(w)
  /\ \E how \in {"none", "error", "timeout"} :
       /\ qerr' = [qerr EXCEPT ![w] = how]
       /\ vid' = [vid EXCEPT ![w] = IF how = "none" THEN LiveId(w) ELSE ""]
       /\ Goto(w, IF how = "none" /\ live[w] # 0 THEN "ledger" ELSE "clear")
  /\ ret' = [ret EXCEPT ![w] = "run"]
  /\ branch' = [branch EXCEPT ![w] = "run"]
  /\ UNCHANGED <<envVars, stateVars, crashed, loopVars, published>>

\* p.getVideoInfo(id, scrapeTimeout)
ScrInfo(w, cap) ==
  /\ At(w, "scraper", "info")
  /\ \/ \* Visit fails, or the page data is Invalid: the error is returned
        /\ fails[w] < cap
        /\ Return(w, "err", "infoerr")
     \/ \* the page is Cached, or the wait times out: no info found
        Return(w, "nil", "noinfo")
     \/ /\ Goto(w, "setreg")
        /\ UNCHANGED <<loopVars, ret, branch>>
  /\ UNCHANGED <<envVars, stateVars, crashed, vid, old, qerr, calls, published>>

\* !slices.Contains(p.state.SentVODs, "youtube:" + id); else "already sent"
ScrLedger(w) ==
  /\ At(w, "scraper", "ledger")
  /\ IF Contains(SentVODs, KeyS("youtube", vid[w]))
       THEN /\ HealthCheck(w)
            /\ Return(w, "nil", "sent")
       ELSE /\ Goto(w, "prio")
            /\ UNCHANGED <<loopVars, ret, branch, calls>>
  /\ UNCHANGED <<envVars, stateVars, crashed, vid, old, qerr, published>>

\* p.state.CheckPriority("YouTube", p.cfg); else "streaming on a different
\* platform"
ScrPriority(w) ==
  /\ At(w, "scraper", "prio")
  /\ IF CheckPriority(w, CurrentStreams)
       THEN /\ Goto(w, "info")
            /\ UNCHANGED <<loopVars, ret, branch, calls>>
       ELSE /\ HealthCheck(w)
            /\ Return(w, "nil", "denied")
  /\ UNCHANGED <<envVars, stateVars, crashed, vid, old, qerr, published>>

\* the "receive" notification, then p.state.CurrentStreams.YouTube = *vod
ScrSetCurrent(w) ==
  /\ At(w, "scraper", "setreg")
  /\ Notify(w)
  /\ CurrentStreams' = [CurrentStreams EXCEPT ![w] = VOD("youtube", vid[w])]
  /\ Goto(w, "publish")
  /\ UNCHANGED <<envVars, SentVODs, SearchETag, disk, crashed, loopVars, vid,
                 old, ret, branch, qerr, published>>

\* json.Marshal(vod), then NatsConnection.Publish
ScrPublish(w) ==
  /\ At(w, "scraper", "publish")
  /\ \/ \* unable to marshal vod
        /\ Return(w, "nil", "marshalfail")
        /\ UNCHANGED <<calls, published>>
     \/ \* unable to publish message
        /\ Publish(w, KeyS("youtube", vid[w]), FALSE)
        /\ Return(w, "nil", "pubfail")
     \/ /\ Publish(w, KeyS("youtube", vid[w]), TRUE)
        /\ Goto(w, "append")
        /\ UNCHANGED <<loopVars, ret, branch>>
  /\ UNCHANGED <<envVars, stateVars, crashed, vid, old, qerr>>

\* the "send" notification, then append reads p.state.SentVODs
ScrAppendRead(w) ==
  /\ At(w, "scraper", "append")
  /\ Notify(w)
  /\ old' = [old EXCEPT ![w] = SentVODs]
  /\ Goto(w, "appendw")
  /\ UNCHANGED <<envVars, stateVars, crashed, loopVars, vid, ret, branch, qerr,
                 published>>

\* p.state.SentVODs = append(..., "youtube:" + vod.VID)
ScrAppendWrite(w) ==
  /\ At(w, "scraper", "appendw")
  /\ SentVODs' = Append(old[w], KeyS("youtube", vid[w]))
  /\ Goto(w, "dump")
  /\ UNCHANGED <<envVars, CurrentStreams, SearchETag, disk, crashed, loopVars,
                 checkVars, published>>

\* p.state.Dump(), util.HealthCheck, return nil
ScrDump(w) ==
  /\ At(w, "scraper", "dump")
  /\ disk' = Dump(SentVODs, CurrentStreams, SearchETag)
  /\ HealthCheck(w)
  /\ Return(w, "nil", "dispatched")
  /\ UNCHANGED <<envVars, SentVODs, CurrentStreams, SearchETag, crashed, vid,
                 old, qerr, published>>

\* not live: p.state.CurrentStreams.YouTube = dggarchivermodel.VOD{},
\* util.HealthCheck, return nil
ScrClear(w) ==
  /\ At(w, "scraper", "clear")
  /\ CurrentStreams' = [CurrentStreams EXCEPT ![w] = EmptyVOD]
  /\ HealthCheck(w)
  /\ Return(w, "nil", "notlive")
  /\ UNCHANGED <<envVars, SentVODs, SearchETag, disk, crashed, vid, old, qerr,
                 published>>

ScrCheckLivestream(w, cap) ==
  \/ ScrQuery(w)
  \/ ScrLedger(w)
  \/ ScrPriority(w)
  \/ ScrInfo(w, cap)
  \/ ScrSetCurrent(w)
  \/ ScrPublish(w)
  \/ ScrAppendRead(w)
  \/ ScrAppendWrite(w)
  \/ ScrDump(w)
  \/ ScrClear(w)

(* ----------------------- Kick: LoopScrapedLivestream -------------------- *)
\* KickAllowed looking at Kick's own entry
KickAllowedOwnEntry(streams) == streams["Kick"].VID = ""

\* state.CurrentStreams.YouTube.ID == ""
KickAllowed(streams) == streams["YouTube"].VID = ""

\* ScrapeKickStream(cfg), then stream.Livestream.IsLive: a failed request
\* hands back nil, and reading through it is a nil pointer dereference
KickQuery(w) ==
  /\ At(w, "kick", "loop")
  /\ \/ Exit
     \/ /\ Enter(w)
        /\ vid' = [vid EXCEPT ![w] = IF live[w] = 0 THEN 0 ELSE KickIds[live[w]]]
        /\ qerr' = [qerr EXCEPT ![w] = "none"]
        /\ Goto(w, IF live[w] = 0 THEN "clear" ELSE "ledger")
        /\ ret' = [ret EXCEPT ![w] = "run"]
        /\ branch' = [branch EXCEPT ![w] = "run"]
        /\ UNCHANGED <<envVars, stateVars, crashed, loopVars, published>>

\* !slices.Contains(state.SentVODs, fmt.Sprintf("kick:%d", id)); else
\* "was already sent", return nil
KickLedger(w) ==
  /\ At(w, "kick", "ledger")
  /\ IF Contains(SentVODs, KeyD("kick", vid[w]))
       THEN Return(w, "nil", "sent")
       ELSE /\ Goto(w, "prio")
            /\ UNCHANGED <<loopVars, ret, branch>>
  /\ UNCHANGED <<envVars, stateVars, crashed, vid, old, qerr, calls, published>>

\* KickPriority with the Registry entry written in the denied branch too
KickPriorityRecordsDenied(w) ==
  /\ At(w, "kick", "prio")
  /\ IF KickAllowed(CurrentStreams)
       THEN /\ Goto(w, "setreg")
            /\ UNCHANGED <<loopVars, ret, branch, CurrentStreams>>
       ELSE /\ CurrentStreams' =
                 [CurrentStreams EXCEPT ![w] = VOD("kick", Itoa(vid[w]))]
            /\ Return(w, "nil", "denied")
  /\ UNCHANGED <<envVars, SentVODs, SearchETag, disk, crashed, vid, old, qerr,
                 calls, published>>

\* if state.CurrentStreams.YouTube.ID == "" ... else "is being streamed on
\* YouTube, skipping", return nil
KickPriority(w) ==
  /\ At(w, "kick", "prio")
  /\ IF KickAllowed(CurrentStreams)
       THEN /\ Goto(w, "setreg")
            /\ UNCHANGED <<loopVars, ret, branch>>
       ELSE Return(w, "nil", "denied")
  /\ UNCHANGED <<envVars, stateVars, crashed, vid, old, qerr, calls, published>>

\* state.CurrentStreams.Kick = *vod
KickSetCurrent(w) ==
  /\ At(w, "kick", "setreg")
  /\ CurrentStreams' = [CurrentStreams EXCEPT ![w] = VOD("kick", Itoa(vid[w]))]
  /\ Goto(w, "publish")
  /\ UNCHANGED <<envVars, SentVODs, SearchETag, disk, crashed, loopVars,
                 checkVars, published>>

\* KickPublish without the return after a failed Publish
KickPublishIgnoresError(w) ==
  /\ At(w, "kick", "publish")
  /\ \/ Exit
     \/ /\ \E ok \in BOOLEAN : Publish(w, KeyS("kick", Itoa(vid[w])), ok)
        /\ Goto(w, "append")
        /\ UNCHANGED <<envVars, stateVars, crashed, loopVars, vid, old, ret,
                       branch, qerr>>

\* json.Marshal(vod): log.Fatalf on failure; then NatsConnection.Publish
KickPublish(w) ==
  /\ At(w, "kick", "publish")
  /\ \/ Exit
     \/ /\ Publish(w, KeyS("kick", Itoa(vid[w])), FALSE)
        /\ Return(w, "nil", "pubfail")
        /\ UNCHANGED <<envVars, stateVars, crashed, vid, old, qerr>>
     \/ /\ Publish(w, KeyS("kick", Itoa(vid[w])), TRUE)
        /\ Goto(w, "append")
        /\ UNCHANGED <<envVars, stateVars, crashed, loopVars, vid, old, ret,
                       branch, qerr>>

\* append reads state.SentVODs
KickAppendRead(w) ==
  /\ At(w, "kick", "append")
  /\ old' = [old EXCEPT ![w] = SentVODs]
  /\ Goto(w, "appendw")
  /\ UNCHANGED <<envVars, stateVars, crashed, loopVars, vid, ret, branch, qerr,
                 calls, published>>

\* state.SentVODs = append(..., fmt.Sprintf("kick:%s", vod.ID))
KickAppendWrite(w) ==
  /\ At(w, "kick", "appendw")
  /\ SentVODs' = Append(old[w], KeyS("kick", Itoa(vid[w])))
  /\ Goto(w, "dump")
  /\ UNCHANGED <<envVars, CurrentStreams, SearchETag, disk, crashed, loopVars,
                 checkVars, published>>

\* state.Dump(), return nil
KickDump(w) ==
  /\ At(w, "kick", "dump")
  /\ disk' = Dump(SentVODs, CurrentStreams, SearchETag)
  /\ Return(w, "nil", "dispatched")
  /\ UNCHANGED <<envVars, SentVODs, CurrentStreams, SearchETag, crashed, vid,
                 old, qerr, calls, published>>

\* KickClear that empties every platform's Registry entry
KickClearAll(w) ==
  /\ At(w, "kick", "clear")
  /\ CurrentStreams' = [p \in Platforms |-> EmptyVOD]
  /\ Return(w, "nil", "notlive")
  /\ UNCHANGED <<envVars, SentVODs, SearchETag, disk, crashed, vid, old, qerr,
                 calls, published>>

\* not live: state.CurrentStreams.Kick = dggarchivermodel.VOD{}, return nil
KickClear(w) ==
  /\ At(w, "kick", "clear")
  /\ CurrentStreams' = [CurrentStreams EXCEPT ![w] = EmptyVOD]
  /\ Return(w, "nil", "notlive")
  /\ UNCHANGED <<envVars, SentVODs, SearchETag, disk, crashed, vid, old, qerr,
                 calls, published>>

LoopScrapedLivestream(w) ==
  \/ KickQuery(w)
  \/ KickLedger(w)
  \/ KickPriority(w)
  \/ KickSetCurrent(w)
  \/ KickPublish(w)
  \/ KickAppendRead(w)
  \/ KickAppendWrite(w)
  \/ KickDump(w)
  \/ KickClear(w)

(* --------------------------- specification ----------------------------- *)
\* the goroutine LaunchLoop starts for one platform; cap bounds the run of
\* consecutive failed Checks
LaunchLoop(w, cap) ==
  \/ APICheckLivestream(w, cap)
  \/ ScrCheckLivestream(w, cap)
  \/ LoopScrapedLivestream(w)

World ==
  \/ GoLiveSimulcast
  \/ \E p \in Platforms : GoLive(p) \/ EndLive(p)

\* every platform enabled
Next ==
  \/ World
  \/ \E w \in Platforms : LaunchLoop(w, MaxFails)

Spec == Init /\ [][Next]_vars

\* YouTube alone enabled
NextYouTube ==
  \/ World
  \/ APICheckLivestream("YouTube", MaxRun)
  \/ ScrCheckLivestream("YouTube", MaxRun)

SpecYouTube == Init /\ [][NextYouTube]_vars

(* ------------------- the durable store on its own --------------------- *)
\* longest Ledger drawn as an input
MaxLedger == 2

\* state.New(cfg): the State of a process that has loaded nothing
New ==
  [SentVODs |-> <<>>,
   CurrentStreams |-> [p \in Platforms |-> EmptyVOD],
   SearchETag |-> NoETag]

\* Load without the Registry: the loaded State keeps the fresh entries
LoadLedgerOnly(file) ==
  [New EXCEPT !.SentVODs = file.SentVODs, !.SearchETag = file.SearchETag]

\* state.Load(): the fields of the durable file, read into the fresh State
Load(file) ==
  [New EXCEPT !.SentVODs = file.SentVODs,
              !.CurrentStreams = file.CurrentStreams,
              !.SearchETag = file.SearchETag]

\* every ledger key and every Job Record of the platforms' videos
StoreKeys ==
  {KeyS("youtube", YTIds[i]) : i \in 1..Len(YTIds)}
    \cup {KeyD("kick", KickIds[i]) : i \in 1..Len(KickIds)}
StoreVODs(p) ==
  {EmptyVOD} \cup
    (IF p = "YouTube"
       THEN {VOD("youtube", YTIds[i]) : i \in 1..Len(YTIds)}
       ELSE {VOD("kick", Itoa(KickIds[i])) : i \in 1..Len(KickIds)})
StoreLedgers == UNION {[1..n -> StoreKeys] : n \in 0..MaxLedger}

\* a process whose Checks have dispatched: any State within the bounds
InitStore ==
  /\ method \in {"api", "scraper"}
  /\ live = [p \in Platforms |-> 0]
  /\ started = [p \in Platforms |-> 0]
  /\ simulcast = FALSE
  /\ disk = Dump(<<>>, [p \in Platforms |-> EmptyVOD], NoETag)
  /\ crashed = FALSE
  /\ published = {}
  /\ SentVODs \in StoreLedgers
  /\ CurrentStreams \in [Platforms -> StoreVODs("YouTube") \cup StoreVODs("Kick")]
  /\ \A p \in Platforms : CurrentStreams[p] \in StoreVODs(p)
  /\ SearchETag \in {NoETag, ETagOf(0), ETagOf(1)}
  /\ pc = [w \in Platforms |-> "loop"]
  /\ timeout = [w \in Platforms |-> 0]
  /\ slept = [w \in Platforms |-> SleepTime]
  /\ fails = [w \in Platforms |-> 0]
  /\ prevFail = [w \in Platforms |-> <<>>]
  /\ prevDenied = [w \in Platforms |-> <<>>]
  /\ vid = NoVid
  /\ old = [w \in Platforms |-> <<>>]
  /\ ret = [w \in Platforms |-> "nil"]
  /\ branch = [w \in Platforms |-> "dispatched"]
  /\ qerr = [w \in Platforms |-> "none"]
  /\ calls = [w \in Platforms |-> NoCalls]

\* p.state.Dump(): the State is written over the durable file
StoreDump ==
  /\ ~crashed
  /\ disk' = Dump(SentVODs, CurrentStreams, SearchETag)
  /\ UNCHANGED <<envVars, SentVODs, CurrentStreams, SearchETag, crashed, pc,
                 loopVars, checkVars, published>>

\* the process ends
StoreExit == ~crashed /\ Exit

\* a fresh process: state.New(cfg), then state.Load()
StoreLoad ==
  /\ crashed
  /\ crashed' = FALSE
  /\ SentVODs' = Load(disk).SentVODs
  /\ CurrentStreams' = Load(disk).CurrentStreams
  /\ SearchETag' = Load(disk).SearchETag
  /\ UNCHANGED <<envVars, disk, pc, loopVars, checkVars, published>>

NextStore == StoreDump \/ StoreExit \/ StoreLoad

SpecStore == InitStore /\ [][NextStore]_vars

(* ------------------------------ claims --------------------------------- *)
\* the ledger key of the broadcast now live on platform p
LiveKey(p) == IF p = "YouTube" THEN KeyS("youtube", LiveId(p)) ELSE KeyS("kick", LiveId(p))

\* worker w calls Publish in this step
CallsPublish(w) == calls'[w].publish /\ ~calls[w].publish

\* C1: once a Job Record has been published successfully, no later step
\* calls Publish for the same key again.
C1_NoRepublish ==
  [][\A w \in Platforms : CallsPublish(w) => VidKey(w) \notin published]_vars

\* C2: while a broadcast that began on both platforms at once is live, the
\* two platforms never both publish a Job Record for it: Kick is denied by
\* YouTube's Registry entry, so at most one Job Record is on the bus.
C2_SimulcastPublishedOnce ==
  simulcast => Cardinality(published \cap {LiveKey(p) : p \in Platforms}) <= 1

\* every platform ranked above p has an empty Registry entry
HigherAllEmpty(p) ==
  \A q \in Platforms : Priority[q] < Priority[p] => CurrentStreams[q] = EmptyVOD

C4_BackoffSchedule ==
  \A w \in Platforms :
    /\ timeout[w] <= 32
    /\ fails[w] > 0 => slept[w] = Min(2 ^ (fails[w] - 1), 32)

\* C5: a worker whose last Check returned nil has timeout 0 and sleeps the
\* poll interval; a worker whose last Check was the first failure after a
\* success waits 1 second.
C5_BackoffReset ==
  \A w \in Platforms :
    /\ (pc[w] = "loop" /\ ret[w] = "nil" /\ branch[w] # "none") =>
         (timeout[w] = 0 /\ fails[w] = 0 /\ slept[w] = SleepTime)
    /\ (pc[w] = "loop" /\ ret[w] = "err" /\ fails[w] = 1) =>
         (timeout[w] = 1 /\ slept[w] = 1)

\* C5 witness: a Check has returned nil and the worker sleeps
C5_Witness ==
  /\ pc["YouTube"] = "loop"
  /\ ret["YouTube"] = "nil"
  /\ branch["YouTube"] = "sent"
  /\ slept["YouTube"] = SleepTime

\* C6: after a Check whose Publish failed the key is not in the Ledger, and
\* the next Check that returns nil with its query answered, the broadcast
\* still live and arbitration not denying it has called Publish.
C6_RetryAfterPublishFailure ==
  [][\A w \in Platforms :
       /\ (pc'[w] = "loop" /\ branch'[w] = "pubfail") =>
            ~Contains(SentVODs', prevFail'[w])
       /\ (/\ prevFail[w] # <<>>
           /\ prevFail[w] = LiveKey(w)
           /\ pc'[w] = "loop"
           /\ ~crashed'
           /\ ret'[w] = "nil"
           /\ qerr'[w] = "none"
           /\ branch'[w] # "denied") => calls'[w].publish]_vars

\* C7: no loop ever stops: the process never ends.
C7_LoopsNeverStop == crashed = FALSE

\* C8: a Check whose platform query failed changes neither the platform's
\* Registry entry nor the Ledger nor the token, and returns an error.
C8_QueryFailureLeavesState ==
  [][\A w \in Platforms :
       qerr'[w] = "error" =>
         /\ CurrentStreams'[w] = CurrentStreams[w]
         /\ w = "YouTube" => SearchETag' = SearchETag
         /\ pc'[w] # pc[w] => SentVODs' = SentVODs
         /\ pc'[w] = "loop" => ret'[w] = "err"]_vars

\* C9: a Check returns an error only when its liveness query failed; when
\* serialization or Publish fails the Check returns nil and the worker
\* sleeps the poll interval with timeout 0.
C9_ErrorSurface ==
  [][\A w \in Platforms :
       /\ (ret'[w] = "err" /\ pc'[w] = "loop") => branch'[w] = "queryerr"
       /\ (pc[w] = "publish" /\ pc'[w] = "loop") =>
            (~crashed' /\ ret'[w] = "nil" /\ timeout'[w] = 0
               /\ slept'[w] = SleepTime)]_vars

\* C10: whenever no Check is in progress the durable file holds the Ledger
\* and the Registry of the State in memory.
C10_DurableMatchesMemory ==
  (~crashed /\ \A w \in Platforms : pc[w] = "loop") =>
    /\ disk.SentVODs = SentVODs
    /\ disk.CurrentStreams = CurrentStreams

Record(w) ==
  IF w = "YouTube" THEN VOD("youtube", vid[w]) ELSE VOD("kick", Itoa(vid[w]))

\* the ledger key of a Job Record
KeyOf(v) == <<v.Platform, v.VID>>

\* C12: a Check that returns after a successful Publish has called Publish,
\* leaves its key in the Ledger and its Job Record in the platform's Registry
\* entry; and a Registry entry that holds a published Job Record changes only
\* in the return of a Check of that platform that found it not live.
C12_DispatchPostcondition ==
  [][\A w \in Platforms :
       /\ (pc[w] # "loop" /\ pc'[w] = "loop" /\ branch'[w] = "dispatched") =>
            /\ calls'[w].publish
            /\ Contains(SentVODs', VidKey(w))
            /\ CurrentStreams'[w] = Record(w)
       /\ (/\ ~crashed'
           /\ CurrentStreams[w] # EmptyVOD
           /\ KeyOf(CurrentStreams[w]) \in published
           /\ CurrentStreams'[w] # CurrentStreams[w]) =>
            (pc'[w] = "loop" /\ branch'[w] = "notlive")]_vars

\* positions of a Check between its Ledger lookup and its durable write
InDispatch ==
  {"ledger", "prio", "info", "setreg", "publish", "append", "appendw", "dump"}

\* C13: no two platform workers are inside the read-decide-write sequence of
\* a dispatch attempt (Ledger lookup to durable write) at the same time.
C13_SerializedAccess ==
  Cardinality({w \in Platforms : pc[w] \in InDispatch}) <= 1

\* worker w's Check has found the broadcast its previous Check was denied for
FoundDeniedAgain(w) ==
  /\ prevDenied[w] # <<>>
  /\ vid[w] # NoVid[w]
  /\ prevDenied[w] = VidKey(w)

\* C14: when the previous Check of a platform was denied for a broadcast and
\* its next Check finds the same broadcast, not in the Ledger, and reaches
\* arbitration with every higher-priority Registry entry empty, the Check
\* passes arbitration, writes its Registry entry and calls Publish for the
\* Job Record.
C14_PriorityFlip ==
  [][\A w \in Platforms :
       (FoundDeniedAgain(w) /\ ~crashed') =>
         /\ (pc[w] = "prio" /\ pc'[w] # "prio" /\ HigherAllEmpty(w)) =>
              pc'[w] \in {"setreg", "info"}
         /\ (pc[w] = "setreg" /\ pc'[w] # "setreg") =>
              (pc'[w] = "publish" /\ CurrentStreams'[w] = Record(w))
         /\ (pc[w] = "publish" /\ pc'[w] # "publish") =>
              calls'[w].publish]_vars

\* C14 witness: Kick was denied for its broadcast, and its next Check has
\* published the Job Record
C14_Witness ==
  /\ pc["Kick"] = "append"
  /\ FoundDeniedAgain("Kick")
  /\ live["Kick"] # 0
  /\ VidKey("Kick") \in published

\* platform q has dispatched the broadcast that is live on it now
DispatchedLive(q) ==
  /\ live[q] # 0
  /\ LiveKey(q) \in published
  /\ Contains(SentVODs, LiveKey(q))

\* C15: while a broadcast that a higher-priority platform has dispatched is
\* still live on that platform, no lower-priority platform calls Publish.
C15_ExclusiveCapture ==
  [][\A w \in Platforms :
       CallsPublish(w) =>
         ~\E q \in Platforms : Priority[q] < Priority[w] /\ DispatchedLive(q)]_vars

\* C15 witness: YouTube has dispatched its live broadcast and Kick was denied;
\* then YouTube's scrape timed out, the Check cleared YouTube's Registry
\* entry, and Kick's next Check has published while YouTube is still live
C15_Witness ==
  /\ method = "scraper"
  /\ DispatchedLive("YouTube")
  /\ pc["YouTube"] = "loop"
  /\ branch["YouTube"] = "notlive"
  /\ qerr["YouTube"] = "timeout"
  /\ pc["Kick"] = "append"
  /\ FoundDeniedAgain("Kick")
  /\ VidKey("Kick") \in published

\* C16: after a Check that found the platform live, whether it dispatched,
\* found the key already sent or was denied, the platform's Registry entry
\* holds the Job Record of the video found; after a Check that found the
\* platform not live the entry is empty.
C16_RegistryTracksLiveness ==
  \A w \in Platforms :
    (~crashed /\ pc[w] = "loop") =>
      /\ branch[w] \in {"dispatched", "sent", "denied"} =>
           CurrentStreams[w] = Record(w)
      /\ branch[w] = "notlive" => CurrentStreams[w] = EmptyVOD

\* C17: the Ledger changes only by the insertion of the key of a Check whose
\* Publish for that key has returned without error and whose Registry entry
\* is already written; every key in the Ledger has been published; a Check
\* that returns after a failed Publish or serialization has not inserted its
\* key; and a Check that dispatched returns with the Ledger persisted.
C17_InsertAfterPublish ==
  [][/\ (SentVODs' # SentVODs /\ ~crashed') =>
          /\ Len(SentVODs') > 0
          /\ \E w \in Platforms :
               /\ vid[w] # NoVid[w]
               /\ SentVODs'[Len(SentVODs')] = VidKey(w)
               /\ calls[w].publish /\ calls[w].ok
               /\ VidKey(w) \in published
               /\ CurrentStreams[w] = Record(w)
               /\ disk' = disk
          /\ \A i \in 1..Len(SentVODs') : SentVODs'[i] \in published
     /\ \A w \in Platforms :
          /\ (pc[w] # "loop" /\ pc'[w] = "loop" /\ ~crashed'
                /\ branch'[w] \in {"pubfail", "marshalfail"}) =>
               (SentVODs' = SentVODs /\ ~calls'[w].ok)
          /\ (pc[w] # "loop" /\ pc'[w] = "loop" /\ branch'[w] = "dispatched") =>
               (calls'[w].ok /\ disk'.SentVODs = SentVODs')]_vars

\* C17 witness: a Check has published, inserted its key, and stands before
\* its durable write
C17_Witness ==
  \E w \in Platforms :
    /\ pc[w] = "dump"
    /\ calls[w].ok
    /\ SentVODs # <<>>
    /\ SentVODs[Len(SentVODs)] = VidKey(w)
    /\ ~Contains(disk.SentVODs, VidKey(w))

\* C18: a Check that finds a live stream, not in the Ledger, and is denied by
\* arbitration has called neither Publish nor the notifier, none of its
\* steps (query, Ledger lookup, arbitration) changes the Ledger or a
\* Registry entry, and it returns nil.
C18_DeniedIsNoOp ==
  [][\A w \in Platforms :
       /\ (pc[w] # "loop" /\ pc'[w] = "loop" /\ branch'[w] = "denied") =>
            /\ pc[w] = "prio"
            /\ ~calls'[w].publish
            /\ calls'[w].notify = 0
            /\ ret'[w] = "nil"
            /\ SentVODs' = SentVODs
            /\ CurrentStreams' = CurrentStreams
       /\ (pc'[w] # pc[w] /\ pc'[w] \in {"ledger", "prio"}) =>
            /\ ~calls'[w].publish
            /\ calls'[w].notify = 0
            /\ SentVODs' = SentVODs
            /\ CurrentStreams' = CurrentStreams]_vars

\* C18 witness: Kick's Check was denied and has returned; YouTube's entry is
\* set, Kick's is empty, nothing was called
C18_Witness ==
  /\ pc["Kick"] = "loop"
  /\ branch["Kick"] = "denied"
  /\ ret["Kick"] = "nil"
  /\ calls["Kick"] = NoCalls
  /\ live["Kick"] # 0
  /\ ~Contains(SentVODs, LiveKey("Kick"))
  /\ CurrentStreams["YouTube"] # EmptyVOD

\* the platform's answer to worker w's query is the one its State holds
SameAnswer(w) ==
  (w = "YouTube" /\ method = "api") => SearchETag = ETagOf(live[w])

\* C19: a Check that finds the platform not live empties the platform's own
\* Registry entry and nothing else of the Ledger and the Registry, calls
\* neither Publish nor the notifier, and returns nil; when the entry is
\* empty already (and the platform answers as before) none of its steps
\* changes the State in memory.
C19_NotLivePoll ==
  [][\A w \in Platforms :
       /\ (pc[w] # "loop" /\ pc'[w] = "loop" /\ branch'[w] = "notlive") =>
            /\ CurrentStreams' = [CurrentStreams EXCEPT ![w] = EmptyVOD]
            /\ SentVODs' = SentVODs
            /\ ret'[w] = "nil"
            /\ timeout'[w] = 0
            /\ ~calls'[w].publish
            /\ calls'[w].notify = 0
       /\ (pc[w] = "loop" /\ pc'[w] = "clear") =>
            (SentVODs' = SentVODs /\ CurrentStreams' = CurrentStreams)
       /\ (/\ pc'[w] # pc[w]
           /\ pc'[w] = "clear" \/ (pc'[w] = "loop" /\ branch'[w] = "notlive")
           /\ CurrentStreams[w] = EmptyVOD
           /\ SameAnswer(w)) =>
            UNCHANGED <<SentVODs, CurrentStreams, SearchETag>>]_vars

\* C19 witness: YouTube had dispatched a broadcast; its Check has now found
\* it not live and emptied the entry, leaving the Ledger and Kick's entry
C19_Witness ==
  /\ pc["YouTube"] = "loop"
  /\ branch["YouTube"] = "notlive"
  /\ qerr["YouTube"] = "none"
  /\ live["YouTube"] = 0
  /\ CurrentStreams["YouTube"] = EmptyVOD
  /\ CurrentStreams["Kick"] # EmptyVOD
  /\ \E i \in 1..Len(SentVODs) : SentVODs[i][1] = "youtube"

\* C20: every Check of the platform with a probe URL (YouTube) that has
\* returned, whatever branch it took, has sent the liveness probe.
C20_ProbeAfterEveryPoll ==
  (~crashed /\ pc["YouTube"] = "loop" /\ branch["YouTube"] # "none") =>
    calls["YouTube"].probe

\* C21: while the process runs, no step removes a key from the Ledger: every
\* key the Ledger holds before a step it holds after it.
C21_LedgerMonotonic ==
  [][~crashed' =>
       \A i \in 1..Len(SentVODs) : Contains(SentVODs', SentVODs[i])]_vars

====
